---- MODULE Spec2Model ----
\* RP2040 TicKV flash adapter (src/src/lib.rs): RP2040FlashCtrl::new and the
\* FlashController operations read_region, write and erase_region, run on a
\* single Cortex-M0+ core against the boot ROM flash routines, the XIP window
\* and the PRIMASK interrupt mask.
EXTENDS Integers, Naturals, Sequences, FiniteSets, TLC

VARIABLES
    overflow_checks, \* build profile: TRUE when integer overflow panics (dev), FALSE when it wraps (release)
    newIn,           \* arguments of RP2040FlashCtrl::new
    newRes,          \* outcome of RP2040FlashCtrl::new
    ctrl,            \* the RP2040FlashCtrl value
    intEnabled,      \* PRIMASK: TRUE when interrupts are enabled
    mode,            \* flash interface: "xip" (memory mapped) or "cmd" (serial command mode)
    flash,           \* content of the tracked flash bytes
    cache,           \* XIP cache lines over the tracked bytes (NoLine when not cached)
    stack,           \* call frames: stack[1] is the thread's call, above it interrupt handlers' calls
    irqLeft,         \* interrupts still to arrive
    halted,          \* TRUE once a panic has stopped the program
    lastProg,        \* per tracked byte: what the last write programmed there since the last erase
    erasedSince      \* per tracked region: erased and not targeted by a write since

vars == <<overflow_checks, newIn, newRes, ctrl, intEnabled, mode, flash, cache,
          stack, irqLeft, halted, lastProg, erasedSince>>

-----------------------------------------------------------------------------
\* u32 / usize (32 bit on thumbv6m) values are pairs <<hi, lo>> of 16-bit halves.

Half == 2^16

U32(hi, lo) == <<hi, lo>>

Zero32 == U32(0, 0)

\* a + b in u32: the wrapped value and whether the sum left the 32 bits
Add32(a, b) ==
    LET lo == a[2] + b[2]
        hi == a[1] + b[1] + (lo \div Half)
    IN  [val |-> <<hi % Half, lo % Half>>, ovf |-> hi >= Half]

\* a - b in u32: the wrapped value and whether the difference went below zero
Sub32(a, b) ==
    LET lo == a[2] - b[2]
        hi == a[1] - b[1] - (IF lo < 0 THEN 1 ELSE 0)
    IN  [val |-> <<(hi + Half) % Half, (lo + Half) % Half>>, ovf |-> hi < 0]

Le32(a, b) == a[1] < b[1] \/ (a[1] = b[1] /\ a[2] <= b[2])

Lt32(a, b) == a[1] < b[1] \/ (a[1] = b[1] /\ a[2] < b[2])

SECTOR_SIZE == 4096

BLOCK_SIZE == 65536

FLASH_XIP_BASE == U32(4096, 0)

\* the check made against the block size instead of the sector size
RemSector_Block(a) == a[2] % BLOCK_SIZE

\* a % SECTOR_SIZE in u32 (SECTOR_SIZE divides 2^16, so only the low half counts)
RemSector(a) == a[2] % SECTOR_SIZE

\* region_number * SECTOR_SIZE in usize
MulSector(r) ==
    LET lo == r[2] * SECTOR_SIZE
        hi == r[1] * SECTOR_SIZE + (lo \div Half)
    IN  [val |-> <<hi % Half, lo % Half>>, ovf |-> hi >= Half]

-----------------------------------------------------------------------------
\* RP2040FlashCtrl::new

NoCtrl == [flash_end |-> Zero32, storage_size |-> Zero32,
           base_addr |-> Zero32, xip_base_addr |-> Zero32]

\* the value of FLASH_XIP_BASE + flash_end - storage_size, evaluated left to right
XipBaseAddr(flash_end, storage_size) ==
    LET s == Add32(FLASH_XIP_BASE, flash_end)
        x == Sub32(s.val, storage_size)
    IN  [val |-> x.val, ovf |-> s.ovf \/ x.ovf]

\* the Result of new(flash_end, storage_size) in a build with or without overflow checks
New(flash_end, storage_size, checks) ==
    IF RemSector(storage_size) # 0
    THEN [kind |-> "Err", err |-> SECTOR_SIZE, ctrl |-> NoCtrl, ovf |-> FALSE]
    ELSE LET b == Sub32(flash_end, storage_size)
             x == XipBaseAddr(flash_end, storage_size)
         IN  IF checks /\ (b.ovf \/ x.ovf)
             THEN [kind |-> "panic", err |-> 0, ctrl |-> NoCtrl, ovf |-> TRUE]
             ELSE [kind |-> "Ok", err |-> 0,
                   ctrl |-> [flash_end |-> flash_end, storage_size |-> storage_size,
                             base_addr |-> b.val, xip_base_addr |-> x.val],
                   ovf |-> b.ovf \/ x.ovf]

Pending == [kind |-> "pending", err |-> 0, ctrl |-> NoCtrl, ovf |-> FALSE]

-----------------------------------------------------------------------------
\* The device of examples/basic_read_write.rs: 1 MiB of flash, the last 64 KiB
\* of it given to the store.

FLASH_END_ADDR == U32(16, 0)

STORAGE_SIZE == U32(1, 0)

STORAGE_ADDR == Sub32(FLASH_END_ADDR, STORAGE_SIZE).val

\* Flash bytes are followed at a sample of offsets (from the start of flash):
\* region 0's first and last byte, region 1's first byte, the byte just below
\* the window and the byte just past its end.
WindowOffsets == {U32(0, 0), U32(0, SECTOR_SIZE - 1), U32(0, SECTOR_SIZE)}

BelowWindow == Sub32(STORAGE_ADDR, U32(0, 1)).val

AboveWindow == FLASH_END_ADDR

Cells == {Add32(STORAGE_ADDR, w).val : w \in WindowOffsets} \cup {BelowWindow, AboveWindow}

TrackedRegions == {0, 1}

ErasedByte == 2^8 - 1

NoLine == 0 - 1

\* what the flash may hold before the first operation: a blank chip, or old data
InitFill == {ErasedByte, 15}

\* what a read through the XIP window delivers while the interface is in command mode
Garbage == {0, ErasedByte}

RECURSIVE BitAnd(_, _, _)
BitAnd(a, b, n) ==
    IF n = 0 THEN 0
    ELSE (a % 2) * (b % 2) + 2 * BitAnd(a \div 2, b \div 2, n - 1)

\* distance of flash offset c from addr, when c lies in the count bytes from addr
InRange(c, addr, count) ==
    LET d == Sub32(c, addr).val IN d[1] = 0 /\ d[2] < count

Dist(c, addr) == Sub32(c, addr).val[2]

\* programming that toggles the bits instead of clearing them
ProgramByte_Toggle(old, new) == old + new - 2 * BitAnd(old, new, 8)

\* rom_data::flash_range_program(addr, data, count): NOR programming clears bits
ProgramByte(old, new) == BitAnd(old, new, 8)

FlashRangeProgram(fl, addr, data) ==
    [c \in Cells |->
        IF InRange(c, addr, Len(data))
        THEN ProgramByte(fl[c], data[Dist(c, addr) + 1])
        ELSE fl[c]]

\* rom_data::flash_range_erase(addr, count, block_size, block_cmd): every sector
\* of the range is erased with the sector command, a block command being used
\* only for a block_size-aligned stretch of at least block_size bytes
UsesBlockCmd(count, block_size) == count >= block_size

FlashRangeErase(fl, addr, count) ==
    [c \in Cells |-> IF InRange(c, addr, count) THEN ErasedByte ELSE fl[c]]

\* the memory map: flash offset c is read at FLASH_XIP_BASE + c
XipAddrOf(c) == Add32(FLASH_XIP_BASE, c).val

\* slice::from_raw_parts(addr, len): the tracked bytes of the slice, by index
SliceCells(addr, len) == {c \in Cells : InRange(XipAddrOf(c), addr, len)}

SliceIdx(addr, len) == {Dist(XipAddrOf(c), addr) : c \in SliceCells(addr, len)}

CellAt(addr, i) == CHOOSE c \in Cells : XipAddrOf(c) = Add32(addr, U32(0, i)).val

\* one byte read through the XIP window
XipByte(ch, fl, md, g, c) ==
    IF md = "cmd" THEN g
    ELSE IF ch[c] # NoLine THEN ch[c] ELSE fl[c]

\* the bytes copy_from_slice delivers, by index of buf
CopyFromSlice(ch, fl, md, g, addr, len) ==
    [i \in SliceIdx(addr, len) |-> XipByte(ch, fl, md, g, CellAt(addr, i))]

\* the cache after a read through the window: the lines that were not resident
\* are fetched (taken as the lines of all the tracked bytes)
CacheFill(ch, fl, md) ==
    [c \in Cells |-> IF md = "xip" /\ ch[c] = NoLine THEN fl[c] ELSE ch[c]]

EmptyCache == [c \in Cells |-> NoLine]

-----------------------------------------------------------------------------
\* Calls and their frames

MaxIrqs == 1

\* sample arguments: in-contract ones and, last in each set, one that is not
ReadArgs ==
    {[region_number |-> U32(0, 0), offset |-> U32(0, 0)],
     [region_number |-> U32(0, 0), offset |-> U32(0, 1)],
     [region_number |-> U32(0, 15), offset |-> U32(0, 1)],
     [region_number |-> U32(15, Half - 1), offset |-> U32(0, SECTOR_SIZE - 1)]}

WriteArgs ==
    {[address |-> U32(0, 0), buf |-> <<240>>],
     [address |-> U32(0, SECTOR_SIZE - 1), buf |-> <<60, 240>>],
     [address |-> U32(Half - 1, Half - 1), buf |-> <<240>>]}

EraseArgs == {U32(0, 0), U32(0, 1), U32(15, Half - 1)}

NoProg == [val |-> NoLine, clean |-> FALSE]

Frame(op, region_number, offset, address, buf) ==
    [op |-> op, region_number |-> region_number, offset |-> offset,
     address |-> address, buf |-> buf,
     pc |-> CASE op = "read_region" -> "rd_addr"
              [] op = "write" -> "wr_addr"
              [] OTHER -> "er_addr",
     addr |-> Zero32, primask |-> FALSE, out |-> <<>>, ret |-> "none",
     log |-> <<>>, expProg |-> <<>>, expErased |-> FALSE, entry |-> FALSE]

ReadFrame(a) == Frame("read_region", a.region_number, a.offset, Zero32, <<>>)

WriteFrame(a) == Frame("write", Zero32, Zero32, a.address, a.buf)

EraseFrame(r) == Frame("erase_region", r, Zero32, Zero32, <<>>)

Calls ==
    {ReadFrame(a) : a \in ReadArgs} \cup {WriteFrame(a) : a \in WriteArgs}
        \cup {EraseFrame(r) : r \in EraseArgs}

\* what an interrupt handler calls
IrqCalls ==
    {ReadFrame([region_number |-> U32(0, 0), offset |-> U32(0, 0)]),
     WriteFrame([address |-> U32(0, 0), buf |-> <<60>>]),
     EraseFrame(U32(0, 0))}

Depth == Len(stack)

Top == stack[Depth]

SetTop(f) == [stack EXCEPT ![Depth] = f]

Running == ~halted /\ Depth > 0

HwUnchanged == UNCHANGED <<intEnabled, mode, flash, cache>>

GhostUnchanged == UNCHANGED <<lastProg, erasedSince>>

CfgUnchanged == UNCHANGED <<overflow_checks, newIn, newRes, ctrl>>

\* the thread calls an operation of the controller
Call ==
    /\ ~halted /\ Depth = 0 /\ newRes.kind = "Ok"
    /\ \E f \in Calls : stack' = <<[f EXCEPT !.entry = intEnabled]>>
    /\ UNCHANGED <<irqLeft, halted>>
    /\ HwUnchanged /\ GhostUnchanged /\ CfgUnchanged

\* an interrupt is taken while an operation is in progress; its handler calls an operation
Interrupt ==
    /\ Running /\ intEnabled /\ irqLeft > 0
    /\ \E f \in IrqCalls : stack' = Append(stack, [f EXCEPT !.entry = intEnabled])
    /\ irqLeft' = irqLeft - 1
    /\ UNCHANGED halted
    /\ HwUnchanged /\ GhostUnchanged /\ CfgUnchanged

\* a panic (overflow check) stops the program; otherwise the frame goes on
Goes(ovf, f) ==
    IF overflow_checks /\ ovf
    THEN stack' = SetTop([Top EXCEPT !.pc = "panicked"]) /\ halted' = TRUE
    ELSE stack' = SetTop(f) /\ halted' = FALSE

\* the offset left out of the address
ReadAddrOf_NoOffset(c, region_number, offset) ==
    LET m == MulSector(region_number)
        a == Add32(c.xip_base_addr, m.val)
    IN  [val |-> a.val, ovf |-> m.ovf \/ a.ovf]

\* xip_base_addr + ((region_number * SECTOR_SIZE) as u32 + offset as u32)
ReadAddrOf(c, region_number, offset) ==
    LET m == MulSector(region_number)
        s == Add32(m.val, offset)
        a == Add32(c.xip_base_addr, s.val)
    IN  [val |-> a.val, ovf |-> m.ovf \/ s.ovf \/ a.ovf]

\* the operands the wrong way round in a difference
WriteAddrOf_Swapped(c, address) == Sub32(address, c.base_addr)

\* base_addr + address as u32
WriteAddrOf(c, address) == Add32(c.base_addr, address)

\* the read (XIP) address handed to the ROM routine
EraseAddrOf_Xip(c, region_number) ==
    LET m == MulSector(region_number)
        a == Add32(c.xip_base_addr, m.val)
    IN  [val |-> a.val, ovf |-> m.ovf \/ a.ovf]

\* base_addr + (region_number * SECTOR_SIZE) as u32
EraseAddrOf(c, region_number) ==
    LET m == MulSector(region_number)
        a == Add32(c.base_addr, m.val)
    IN  [val |-> a.val, ovf |-> m.ovf \/ a.ovf]

ReadAddr ==
    /\ Running /\ Top.pc = "rd_addr"
    /\ LET a == ReadAddrOf(ctrl, Top.region_number, Top.offset)
       IN  Goes(a.ovf, [Top EXCEPT !.addr = a.val, !.pc = "rd_copy"])
    /\ UNCHANGED irqLeft
    /\ HwUnchanged /\ GhostUnchanged /\ CfgUnchanged

RegionIndex(r) == IF r[1] = 0 /\ r[2] \in TrackedRegions THEN r[2] ELSE NoLine

\* the copy made with interrupts masked and the mask never put back
ReadCopy_Masked ==
    /\ Running /\ Top.pc = "rd_copy"
    /\ \E g \in (IF mode = "cmd" THEN Garbage ELSE {0}) :
         stack' = SetTop([Top EXCEPT
            !.out = CopyFromSlice(cache, flash, mode, g, Top.addr, SECTOR_SIZE),
            !.expProg = lastProg,
            !.expErased = IF RegionIndex(Top.region_number) # NoLine
                          THEN erasedSince[RegionIndex(Top.region_number)] ELSE FALSE,
            !.pc = "ok"])
    /\ cache' = CacheFill(cache, flash, mode)
    /\ intEnabled' = FALSE
    /\ UNCHANGED <<mode, flash, irqLeft, halted>>
    /\ GhostUnchanged /\ CfgUnchanged

ReadCopy ==
    /\ Running /\ Top.pc = "rd_copy"
    /\ \E g \in (IF mode = "cmd" THEN Garbage ELSE {0}) :
         stack' = SetTop([Top EXCEPT
            !.out = CopyFromSlice(cache, flash, mode, g, Top.addr, SECTOR_SIZE),
            !.expProg = lastProg,
            !.expErased = IF RegionIndex(Top.region_number) # NoLine
                          THEN erasedSince[RegionIndex(Top.region_number)] ELSE FALSE,
            !.pc = "ok"])
    /\ cache' = CacheFill(cache, flash, mode)
    /\ UNCHANGED <<intEnabled, mode, flash, irqLeft, halted>>
    /\ GhostUnchanged /\ CfgUnchanged

WriteAddr ==
    /\ Running /\ Top.pc = "wr_addr"
    /\ LET a == WriteAddrOf(ctrl, Top.address)
       IN  Goes(a.ovf, [Top EXCEPT !.addr = a.val, !.pc = "free_read"])
    /\ UNCHANGED irqLeft
    /\ HwUnchanged /\ GhostUnchanged /\ CfgUnchanged

\* the computed address kept in the controller as its new base
EraseAddr_Advance ==
    /\ Running /\ Top.pc = "er_addr"
    /\ LET a == EraseAddrOf(ctrl, Top.region_number)
       IN  /\ Goes(a.ovf, [Top EXCEPT !.addr = a.val, !.pc = "free_read"])
           /\ ctrl' = [ctrl EXCEPT !.base_addr = a.val]
    /\ UNCHANGED <<irqLeft, overflow_checks, newIn, newRes>>
    /\ HwUnchanged /\ GhostUnchanged

EraseAddr ==
    /\ Running /\ Top.pc = "er_addr"
    /\ LET a == EraseAddrOf(ctrl, Top.region_number)
       IN  Goes(a.ovf, [Top EXCEPT !.addr = a.val, !.pc = "free_read"])
    /\ UNCHANGED irqLeft
    /\ HwUnchanged /\ GhostUnchanged /\ CfgUnchanged

\* cortex_m::interrupt::free: primask::read()
FreeReadPrimask ==
    /\ Running /\ Top.pc = "free_read"
    /\ stack' = SetTop([Top EXCEPT !.primask = intEnabled, !.pc = "free_disable"])
    /\ UNCHANGED <<irqLeft, halted>>
    /\ HwUnchanged /\ GhostUnchanged /\ CfgUnchanged

\* the critical section entered without masking interrupts
FreeDisable_Noop ==
    /\ Running /\ Top.pc = "free_disable"
    /\ stack' = SetTop([Top EXCEPT !.pc = "connect"])
    /\ UNCHANGED <<intEnabled, mode, flash, cache, irqLeft, halted>>
    /\ GhostUnchanged /\ CfgUnchanged

\* cortex_m::interrupt::free: interrupt::disable()
FreeDisable ==
    /\ Running /\ Top.pc = "free_disable"
    /\ intEnabled' = FALSE
    /\ stack' = SetTop([Top EXCEPT !.pc = "connect"])
    /\ UNCHANGED <<mode, flash, cache, irqLeft, halted>>
    /\ GhostUnchanged /\ CfgUnchanged

Did(step, next) == SetTop([Top EXCEPT !.log = Append(Top.log, step), !.pc = next])

ConnectInternalFlash ==
    /\ Running /\ Top.pc = "connect"
    /\ stack' = Did("connect", "exit_xip")
    /\ UNCHANGED <<irqLeft, halted>>
    /\ HwUnchanged /\ GhostUnchanged /\ CfgUnchanged

FlashExitXip ==
    /\ Running /\ Top.pc = "exit_xip"
    /\ mode' = "cmd"
    /\ stack' = Did("exit_xip", IF Top.op = "write" THEN "program" ELSE "erase")
    /\ UNCHANGED <<intEnabled, flash, cache, irqLeft, halted>>
    /\ GhostUnchanged /\ CfgUnchanged

\* Bookkeeping of what the calls asked for, by the window location they name
\* (flash offsets from STORAGE_ADDR, independent of the controller's fields).
RegionStart(n) == Add32(STORAGE_ADDR, U32(0, n * SECTOR_SIZE)).val

WindowAddr(offset) == Add32(STORAGE_ADDR, offset).val

RegionAddr(region_number) == WindowAddr(MulSector(region_number).val)

\* the tracked regions that hold a byte of the count bytes at flash offset addr

RegionsHit(addr, count) ==
    {n \in TrackedRegions :
        \E i \in 0..(count - 1) : InRange(Add32(addr, U32(0, i)).val, RegionStart(n), SECTOR_SIZE)}

\* the cache flush left out after the program command
ProgramCmd_NoFlush ==
    /\ Running /\ Top.pc = "program"
    /\ flash' = FlashRangeProgram(flash, Top.addr, Top.buf)
    /\ lastProg' = [c \in Cells |->
            IF InRange(c, WindowAddr(Top.address), Len(Top.buf))
            THEN [val |-> Top.buf[Dist(c, WindowAddr(Top.address)) + 1],
                  clean |-> flash[c] = ErasedByte]
            ELSE lastProg[c]]
    /\ erasedSince' = [n \in TrackedRegions |->
            erasedSince[n] /\ n \notin RegionsHit(WindowAddr(Top.address), Len(Top.buf))]
    /\ stack' = Did("program", "enter_xip")
    /\ UNCHANGED <<intEnabled, mode, cache, irqLeft, halted>>
    /\ CfgUnchanged

ProgramCmd ==
    /\ Running /\ Top.pc = "program"
    /\ flash' = FlashRangeProgram(flash, Top.addr, Top.buf)
    /\ lastProg' = [c \in Cells |->
            IF InRange(c, WindowAddr(Top.address), Len(Top.buf))
            THEN [val |-> Top.buf[Dist(c, WindowAddr(Top.address)) + 1],
                  clean |-> flash[c] = ErasedByte]
            ELSE lastProg[c]]
    /\ erasedSince' = [n \in TrackedRegions |->
            erasedSince[n] /\ n \notin RegionsHit(WindowAddr(Top.address), Len(Top.buf))]
    /\ stack' = Did("program", "flush")
    /\ UNCHANGED <<intEnabled, mode, cache, irqLeft, halted>>
    /\ CfgUnchanged

\* the block size handed over as the count
EraseSpan_Block == BLOCK_SIZE

\* flash_range_erase(addr, SECTOR_SIZE, BLOCK_SIZE, 0)
EraseSpan == IF UsesBlockCmd(SECTOR_SIZE, BLOCK_SIZE) THEN BLOCK_SIZE ELSE SECTOR_SIZE

EraseCmd ==
    /\ Running /\ Top.pc = "erase"
    /\ flash' = FlashRangeErase(flash, Top.addr, EraseSpan)
    /\ lastProg' = [c \in Cells |->
            IF InRange(c, RegionAddr(Top.region_number), SECTOR_SIZE)
            THEN NoProg ELSE lastProg[c]]
    /\ erasedSince' = [n \in TrackedRegions |->
            erasedSince[n] \/ RegionIndex(Top.region_number) = n]
    /\ stack' = Did("erase", "flush")
    /\ UNCHANGED <<intEnabled, mode, cache, irqLeft, halted>>
    /\ CfgUnchanged

\* the closure ending after the flush: interrupts restored before XIP is back
FlashFlushCache_EarlyRestore ==
    /\ Running /\ Top.pc = "flush"
    /\ cache' = EmptyCache
    /\ intEnabled' = (Top.primask \/ intEnabled)
    /\ stack' = Did("flush", "enter_xip")
    /\ UNCHANGED <<mode, flash, irqLeft, halted>>
    /\ GhostUnchanged /\ CfgUnchanged

FlashFlushCache ==
    /\ Running /\ Top.pc = "flush"
    /\ cache' = EmptyCache
    /\ stack' = Did("flush", "enter_xip")
    /\ UNCHANGED <<intEnabled, mode, flash, irqLeft, halted>>
    /\ GhostUnchanged /\ CfgUnchanged

\* the return to XIP left out
FlashEnterCmdXip_Skip ==
    /\ Running /\ Top.pc = "enter_xip"
    /\ stack' = SetTop([Top EXCEPT !.pc = "free_restore"])
    /\ UNCHANGED <<irqLeft, halted>>
    /\ HwUnchanged /\ GhostUnchanged /\ CfgUnchanged

FlashEnterCmdXip ==
    /\ Running /\ Top.pc = "enter_xip"
    /\ mode' = "xip"
    /\ stack' = Did("enter_xip", "free_restore")
    /\ UNCHANGED <<intEnabled, flash, cache, irqLeft, halted>>
    /\ GhostUnchanged /\ CfgUnchanged

\* interrupts enabled at the end whatever the mask was
FreeRestore_AlwaysEnable ==
    /\ Running /\ Top.pc = "free_restore"
    /\ intEnabled' = TRUE
    /\ stack' = SetTop([Top EXCEPT !.pc = "ok"])
    /\ UNCHANGED <<mode, flash, cache, irqLeft, halted>>
    /\ GhostUnchanged /\ CfgUnchanged

\* cortex_m::interrupt::free: if primask.is_active() { interrupt::enable() }
FreeRestore ==
    /\ Running /\ Top.pc = "free_restore"
    /\ intEnabled' = (Top.primask \/ intEnabled)
    /\ stack' = SetTop([Top EXCEPT !.pc = "ok"])
    /\ UNCHANGED <<mode, flash, cache, irqLeft, halted>>
    /\ GhostUnchanged /\ CfgUnchanged

\* Ok(())
ReturnOk ==
    /\ Running /\ Top.pc = "ok"
    /\ stack' = SetTop([Top EXCEPT !.ret = "Ok", !.pc = "ret"])
    /\ UNCHANGED <<irqLeft, halted>>
    /\ HwUnchanged /\ GhostUnchanged /\ CfgUnchanged

\* the caller (or the interrupted code) goes on
Resume ==
    /\ Running /\ Top.pc = "ret"
    /\ stack' = SubSeq(stack, 1, Depth - 1)
    /\ UNCHANGED <<irqLeft, halted>>
    /\ HwUnchanged /\ GhostUnchanged /\ CfgUnchanged

Step ==
    \/ ReadAddr \/ ReadCopy \/ WriteAddr \/ EraseAddr
    \/ FreeReadPrimask \/ FreeDisable \/ ConnectInternalFlash \/ FlashExitXip
    \/ ProgramCmd \/ EraseCmd \/ FlashFlushCache \/ FlashEnterCmdXip
    \/ FreeRestore \/ ReturnOk \/ Resume

Next == Call \/ Interrupt \/ Step

Quiet ==
    /\ mode = "xip" /\ cache = EmptyCache /\ stack = <<>> /\ halted = FALSE
    /\ lastProg = [c \in Cells |-> NoProg]
    /\ erasedSince = [n \in TrackedRegions |-> FALSE]

Init ==
    /\ overflow_checks \in BOOLEAN
    /\ newIn = [flash_end |-> FLASH_END_ADDR, storage_size |-> STORAGE_SIZE]
    /\ newRes = New(newIn.flash_end, newIn.storage_size, overflow_checks)
    /\ ctrl = newRes.ctrl
    /\ intEnabled \in BOOLEAN
    /\ flash \in {[c \in Cells |-> v] : v \in InitFill}
    /\ irqLeft = MaxIrqs
    /\ Quiet

Spec == Init /\ [][Next]_vars

-----------------------------------------------------------------------------
\* Construction on its own: new() applied to a sample of argument pairs.

FlashEnds ==
    {U32(0, 0), U32(16, 0), U32(16, 2048), U32(32, 0),
     U32(61440, 0), U32(63488, 0), U32(Half - 1, Half - 1)}

StorageSizes ==
    {U32(0, 0), U32(0, SECTOR_SIZE - 1), U32(0, SECTOR_SIZE), U32(0, 5000),
     U32(1, 0), U32(8, 0), U32(4096, 0), U32(Half - 1, Half - SECTOR_SIZE),
     U32(Half - 1, Half - 1)}

DoNew ==
    /\ newRes.kind = "pending"
    /\ newRes' = New(newIn.flash_end, newIn.storage_size, overflow_checks)
    /\ ctrl' = newRes'.ctrl
    /\ halted' = (newRes'.kind = "panic")
    /\ UNCHANGED <<overflow_checks, newIn, stack, irqLeft>>
    /\ HwUnchanged /\ GhostUnchanged

NextNew == DoNew

InitNew ==
    /\ overflow_checks \in BOOLEAN
    /\ newIn \in [flash_end : FlashEnds, storage_size : StorageSizes]
    /\ newRes = Pending
    /\ ctrl = NoCtrl
    /\ intEnabled = TRUE
    /\ flash = [c \in Cells |-> ErasedByte]
    /\ irqLeft = 0
    /\ Quiet

SpecNew == InitNew /\ [][NextNew]_vars

\* The processor keeps executing the running call; the flash starts with old data.
LiveInit == Init /\ flash = [c \in Cells |-> 15]

LiveSpec == LiveInit /\ [][Next]_vars /\ WF_vars(Step)

-----------------------------------------------------------------------------
\* The caller contract of spec section 3, against the window of the controller

RegionInWindow(c, region_number) ==
    LET m == MulSector(region_number)
    IN  ~m.ovf /\ Lt32(m.val, c.storage_size)

InContract(c, f) ==
    CASE f.op = "write" ->
            LET e == Add32(f.address, U32(0, Len(f.buf)))
            IN  ~e.ovf /\ Le32(e.val, c.storage_size)
      [] f.op = "erase_region" -> RegionInWindow(c, f.region_number)
      [] OTHER ->
            /\ RegionInWindow(c, f.region_number)
            /\ LET e == Add32(MulSector(f.region_number).val, f.offset)
               IN  ~e.ovf /\ Le32(e.val, c.storage_size)

Frames == {stack[i] : i \in 1..Depth}

IsMutation(f) == f.op \in {"write", "erase_region"}

ReadDone(f) == f.op = "read_region" /\ f.pc \in {"ok", "ret"}

\* the flash offset that byte 0 of buf stands for in read_region(region_number, offset, buf)
ReadStart(f) == Add32(RegionAddr(f.region_number), f.offset).val

\* the tracked bytes that the read of frame f is to deliver
Asked(f) == {c \in Cells : InRange(c, ReadStart(f), SECTOR_SIZE)}

\* a % SECTOR_SIZE = 0, on the number itself
IsSectorMultiple(a) == (((a[1] % SECTOR_SIZE) * Half) + a[2]) % SECTOR_SIZE = 0

InCritical(f) ==
    f.pc \in {"connect", "exit_xip", "program", "erase", "flush", "enter_xip", "free_restore"}

InCmd(f) == f.pc \in {"program", "erase", "flush", "enter_xip"}

-----------------------------------------------------------------------------
\* C1: whenever the flash interface is in command mode interrupts are disabled;
\* hence interrupts are enabled again only once the interface is back in XIP mode.
C1_CmdModeMasked == mode = "cmd" => ~intEnabled

\* a call made with interrupts enabled is in command mode, interrupts masked
C1_Witness == Running /\ mode = "cmd" /\ InCmd(Top) /\ Top.primask /\ ~intEnabled

\* C2 as stated: an in-bounds read_region delivers, at every byte, what the most
\* recent write programmed at that window offset, unless the region was erased since.
C2_ReadsLastProgrammed ==
    \A f \in Frames : ReadDone(f) /\ InContract(ctrl, f) =>
        \A c \in Asked(f) : f.expProg[c].val # NoLine =>
            /\ Dist(c, ReadStart(f)) \in DOMAIN f.out
            /\ f.out[Dist(c, ReadStart(f))] = f.expProg[c].val

\* C2 amended: the same, for the bytes that held the erased value 0xFF when that
\* write programmed them.
C2_ReadsLastProgrammedOnErased ==
    \A f \in Frames : ReadDone(f) /\ InContract(ctrl, f) =>
        \A c \in Asked(f) : f.expProg[c].val # NoLine /\ f.expProg[c].clean =>
            /\ Dist(c, ReadStart(f)) \in DOMAIN f.out
            /\ f.out[Dist(c, ReadStart(f))] = f.expProg[c].val

\* an in-bounds read has delivered a byte programmed onto erased flash
C2_Witness ==
    \E f \in Frames : ReadDone(f) /\ InContract(ctrl, f) /\
        \E c \in Asked(f) : f.expProg[c].clean /\ f.expProg[c].val = 240
            /\ f.out[Dist(c, ReadStart(f))] = 240

\* C3: once erase_region(n) has erased region n, and until a write targets
\* region n, every byte of region n that read_region(n, ...) delivers is 0xFF.
C3_ErasedReadsFF ==
    \A f \in Frames :
        ReadDone(f) /\ InContract(ctrl, f) /\ RegionIndex(f.region_number) # NoLine /\ f.expErased =>
            \A c \in Asked(f) : InRange(c, RegionAddr(f.region_number), SECTOR_SIZE) =>
                /\ Dist(c, ReadStart(f)) \in DOMAIN f.out
                /\ f.out[Dist(c, ReadStart(f))] = ErasedByte

\* region 0 held old data, was erased, and is read back as 0xFF at both its ends
C3_Witness ==
    \E f \in Frames :
        /\ ReadDone(f) /\ f.expErased /\ f.region_number = Zero32 /\ f.offset = Zero32
        /\ flash[AboveWindow] # ErasedByte
        /\ f.out[0] = ErasedByte /\ f.out[SECTOR_SIZE - 1] = ErasedByte

\* C4: new() answers Err(BufferTooSmall(4096)) and builds no controller when
\* storage_size is not a multiple of 4096, whatever flash_end is, and does not
\* answer that error when it is a multiple.
C4_AlignmentError ==
    newRes.kind # "pending" =>
        IF IsSectorMultiple(newIn.storage_size)
        THEN newRes.kind # "Err"
        ELSE newRes.kind = "Err" /\ newRes.err = 4096 /\ ctrl = NoCtrl

\* storage_size = 5000 was refused
C4_Witness == newRes.kind = "Err" /\ newIn.storage_size = U32(0, 5000)

\* C5 as stated: every controller that new() builds has base_addr = flash_end -
\* storage_size and xip_base_addr = 0x1000_0000 + base_addr as numbers, no sum or
\* difference having wrapped.
C5_ExactAddresses ==
    newRes.kind = "Ok" =>
        /\ ~newRes.ovf
        /\ Le32(newIn.storage_size, newIn.flash_end)
        /\ Add32(ctrl.base_addr, newIn.storage_size) = [val |-> newIn.flash_end, ovf |-> FALSE]
        /\ Add32(FLASH_XIP_BASE, ctrl.base_addr) = [val |-> ctrl.xip_base_addr, ovf |-> FALSE]

\* C7: at most one mutation is inside its critical section, and no call below the
\* running one is suspended between its switch to command mode and its switch
\* back: no handler runs there.
C7_OneCriticalSection ==
    /\ Cardinality({i \in 1..Depth : InCritical(stack[i])}) <= 1
    /\ \A i \in 1..(Depth - 1) : ~InCmd(stack[i])
    /\ (mode = "cmd" => Depth > 0 /\ InCmd(Top))

\* a handler's mutation is in command mode while the thread's own mutation waits
\* outside its critical section
C7_Witness ==
    Depth = 2 /\ InCmd(stack[2]) /\ IsMutation(stack[1]) /\ mode = "cmd"

\* C9 as stated: every call of read_region, write and erase_region comes back
\* with Ok, whatever its arguments.
C9_AlwaysOk ==
    \A f \in Frames : f.pc # "panicked" /\ f.ret \in {"none", "Ok"}

\* C9 amended: none of the three ever returns an error value (a call that returns,
\* returns Ok), and a call stops in a panic only in a build with overflow checks
\* and only with arguments outside the caller contract.
C9_OkOrContractPanic ==
    \A f \in Frames :
        /\ f.ret \in {"none", "Ok"}
        /\ (f.pc = "ret" => f.ret = "Ok")
        /\ (f.pc = "panicked" => overflow_checks /\ ~InContract(ctrl, f))
        /\ (halted => \E g \in Frames : g.pc = "panicked")

\* an erase_region with a region number outside the window has returned Ok
C9_Witness ==
    \E f \in Frames : f.op = "erase_region" /\ ~InContract(ctrl, f) /\ f.pc = "ret" /\ f.ret = "Ok"

\* what an in-bounds read_region(a) would deliver from flash content fl
ReadView(fl, a) ==
    CopyFromSlice(EmptyCache, fl, "xip", 0, ReadAddrOf(ctrl, a.region_number, a.offset).val, SECTOR_SIZE)

MaxDepth == MaxIrqs + 1

Started(d) == Depth >= d /\ IsMutation(stack[d]) /\ stack[d].pc # "ret"

Returned(d) == Depth >= d /\ IsMutation(stack[d]) /\ stack[d].pc = "ret"

\* a mutation that has returned went through its whole critical section, and
\* the interface is in XIP mode when the running call has returned
ReturnedAfterCriticalSection ==
    /\ \A f \in Frames : IsMutation(f) /\ f.pc \in {"ok", "ret"} =>
          f.log = <<"connect", "exit_xip", IF f.op = "write" THEN "program" ELSE "erase",
                    "flush", "enter_xip">>
    /\ (Running /\ IsMutation(Top) /\ Top.pc \in {"ok", "ret"} => mode = "xip")

\* C8 as stated: every started write or erase_region returns (no call is given up),
\* and has returned only after its whole critical section.
C8_AlwaysReturns ==
    /\ \A f \in Frames : IsMutation(f) => f.pc # "panicked"
    /\ ReturnedAfterCriticalSection

\* C8 amended: every started write or erase_region eventually returns unless a
\* panic on address overflow has stopped the program, and has returned only after
\* its whole critical section.
C8_ReturnsUnlessPanic ==
    /\ \A d \in 1..MaxDepth : Started(d) ~> (Returned(d) \/ halted)
    /\ []ReturnedAfterCriticalSection

\* a handler's mutation has returned, and so has the thread's write it interrupted
C8_Witness ==
    Depth = 1 /\ Top.op = "write" /\ Top.pc = "ret" /\ irqLeft = 0
        /\ mode = "xip" /\ lastProg[RegionStart(0)].val = 60

-----------------------------------------------------------------------------
\* the running call is a read_region
ReadRunning == Running /\ Top.op = "read_region"

\* C11: read_region only fills buf: no step of it changes the flash contents,
\* the interface mode or the interrupt mask, it runs with the interface memory
\* mapped, and it never enters a critical section or calls a ROM routine.
C11_ReadOnlyFillsBuf ==
    /\ [][ReadRunning => UNCHANGED <<flash, mode, intEnabled>>]_vars
    /\ [](ReadRunning => mode = "xip")
    /\ [](\A f \in Frames : f.op = "read_region" =>
            /\ ~InCritical(f) /\ f.pc \notin {"free_read", "free_disable"}
            /\ f.log = <<>>)

\* a read of region 0 has returned old data with interrupts still enabled
C11_Witness ==
    \E f \in Frames :
        /\ f.op = "read_region" /\ f.pc = "ret" /\ f.ret = "Ok"
        /\ f.region_number = Zero32 /\ f.offset = Zero32
        /\ f.out[0] = 15 /\ flash[RegionStart(0)] = 15
        /\ intEnabled /\ mode = "xip"

\* the hardware steps of a mutation, in the order of the closure
HwSteps(f) ==
    <<"connect", "exit_xip", IF f.op = "write" THEN "program" ELSE "erase",
      "flush", "enter_xip">>

IsPrefix(s, t) == Len(s) <= Len(t) /\ s = SubSeq(t, 1, Len(s))

\* the running call has just done the hardware step named
JustDid(step) ==
    /\ Depth' = Depth /\ Depth > 0
    /\ stack'[Depth].log = Append(Top.log, step)

\* C12: inside every write and erase_region the steps connect, leave XIP,
\* program/erase, flush, re-enter XIP are done in this order, each once; the
\* command is issued, and the flash changes, only in command mode; the flush is
\* done in command mode after the command, and XIP comes back only after the flush.
C12_HardwareStepsInOrder ==
    /\ [](\A f \in Frames : IsMutation(f) =>
            /\ IsPrefix(f.log, HwSteps(f))
            /\ (f.pc \in {"free_restore", "ok", "ret"} => f.log = HwSteps(f)))
    /\ [][(JustDid("program") \/ JustDid("erase") \/ flash' # flash)
            => mode = "cmd" /\ mode' = "cmd"]_vars
    /\ [][JustDid("flush") => mode = "cmd" /\ mode' = "cmd" /\ cache' = EmptyCache]_vars
    /\ [][mode = "cmd" /\ mode' = "xip" =>
            Depth > 0 /\ Len(Top.log) = 4 /\ Top.log[4] = "flush"]_vars
    /\ [][mode = "xip" /\ mode' = "cmd" => Depth > 0 /\ Top.log = <<"connect">>]_vars

\* an erase_region has gone through all five steps and left region 0 erased
C12_Witness ==
    /\ Running /\ Top.op = "erase_region" /\ Top.pc = "ret"
    /\ Top.log = HwSteps(Top)
    /\ mode = "xip" /\ cache = EmptyCache
    /\ flash[RegionStart(0)] = ErasedByte /\ flash[RegionStart(1)] = 15

\* the tracked bytes of the range a mutation names: len(buf) bytes at window
\* offset address, or the sector of region_number (u32 arithmetic)
TargetOf(f) ==
    IF f.op = "write"
    THEN {c \in Cells : InRange(c, WindowAddr(f.address), Len(f.buf))}
    ELSE {c \in Cells : InRange(c, RegionAddr(f.region_number), SECTOR_SIZE)}

\* flash offset c lies in the storage window
InWindow(c) == Le32(STORAGE_ADDR, c) /\ Lt32(c, FLASH_END_ADDR)

\* C13: a byte of the flash changes only in a step of a write or erase_region,
\* and only if it lies in the range that call names (len(buf) bytes at base_addr
\* + address, SECTOR_SIZE bytes at base_addr + n*SECTOR_SIZE); for a call within
\* the caller contract that range lies in the storage window.
C13_OnlyTargetChanges ==
    [][\A c \in Cells : flash'[c] # flash[c] =>
            /\ Depth > 0 /\ IsMutation(Top)
            /\ c \in TargetOf(Top)
            /\ (InContract(ctrl, Top) => InWindow(c))]_vars

\* erase_region(0) has erased both ends of region 0 and nothing around it
C13_Witness ==
    /\ Running /\ Top.op = "erase_region" /\ Top.pc = "flush"
    /\ Top.region_number = Zero32
    /\ flash[RegionStart(0)] = ErasedByte
    /\ flash[WindowAddr(U32(0, SECTOR_SIZE - 1))] = ErasedByte
    /\ flash[RegionStart(1)] = 15 /\ flash[BelowWindow] = 15 /\ flash[AboveWindow] = 15

\* C14 as stated: a read_region within the caller contract reads only addresses
\* of the storage window [xip_base_addr, xip_base_addr + storage_size).
C14_ReadsInsideWindow ==
    \A f \in Frames :
        ReadDone(f) /\ InContract(ctrl, f) =>
            /\ LET first == Sub32(f.addr, ctrl.xip_base_addr)
                   last == Add32(first.val, U32(0, SECTOR_SIZE - 1))
               IN  ~first.ovf /\ ~last.ovf /\ Lt32(last.val, ctrl.storage_size)
            /\ \A c \in SliceCells(f.addr, SECTOR_SIZE) : InWindow(c)

\* C15: flash_end, storage_size, base_addr and xip_base_addr keep the values
\* construction gave them, whatever read_region, write and erase_region calls are made.
C15_ConfigImmutable ==
    /\ [](ctrl = New(FLASH_END_ADDR, STORAGE_SIZE, overflow_checks).ctrl)
    /\ [][UNCHANGED <<ctrl, newIn, newRes>>]_vars

\* after a write, an erase_region and a read_region the fields are those of construction
C15_Witness ==
    /\ \E f \in Frames : ReadDone(f) /\ f.expErased
    /\ lastProg[RegionStart(1)].val = 240
    /\ ctrl.flash_end = FLASH_END_ADDR /\ ctrl.storage_size = STORAGE_SIZE
    /\ ctrl.base_addr = STORAGE_ADDR /\ ctrl.xip_base_addr = XipAddrOf(STORAGE_ADDR)

\* C16: when a write or erase_region returns, the interrupt mask is what it was
\* at the call: enabled if it was enabled, still disabled if it was disabled.
C16_MaskRestored ==
    Running /\ IsMutation(Top) /\ Top.pc \in {"ok", "ret"} => intEnabled = Top.entry

\* a write called with interrupts disabled has returned with them still disabled
C16_Witness ==
    /\ Running /\ Top.op = "write" /\ Top.pc = "ret" /\ Top.ret = "Ok"
    /\ ~Top.entry /\ ~intEnabled /\ Top.log = HwSteps(Top)

====
